---- MODULE Spec2Model ----
(***************************************************************************)
(* Terminus agent core: the Socket.IO handlers of agent_core/main.py       *)
(* (connect, disconnect, execute_goal, shutdown) and the workflow task     *)
(* that execute_goal spawns, as one asyncio event loop.                    *)
(*                                                                         *)
(* One action is one callback of the event loop: a handler or a workflow   *)
(* task runs from one suspension point (await) to the next.  Suspension    *)
(* points of the workflow are the awaits of the source: asyncio.to_thread  *)
(* (planner, translator), asyncio.sleep(0) and every emit_json.  An event  *)
(* is recorded in the client's trace when emit_json is called; the task is *)
(* then suspended inside the emit until its next callback.                 *)
(*                                                                         *)
(* Task.cancel() sets cancelReq; the CancelledError is raised inside the   *)
(* task at its next callback, at the await where it is suspended.  A task  *)
(* cancelled before its first callback never runs its body.                *)
(***************************************************************************)
EXTENDS Integers, Sequences, FiniteSets, TLC

\* ---- bounds of the model ----
MaxReq == 2          \* execute_goal requests received in one run
MaxReplans == 1      \* re-plans of all workflows of one run
MaxNow == 4          \* last value of the clock
MaxCmdLen == 3       \* characters of a command given to the sandbox
MaxTextLen == 4      \* characters of the text of a translator response
MaxStepLen == 2      \* characters of a step of a plan
MaxPlanItems == 2    \* items of a plan, lines of a plain-text plan
MaxWorkflowReplans == 2  \* re-plans of the workflow followed step by step

\* ---- program constants (environment defaults scaled to the model) ----
MIN_EXECUTE_GOAL_INTERVAL_SEC == 2
MAX_GOAL_LEN == 2
\* the defaults of _retry: retries, and backoff (0.75 s) in quarters of a second
RETRIES == 2
BACKOFF_QUARTERS == 3

Clients == {"c1", "c2"}

\* characters of a goal: one whitespace and one non-whitespace character
GoalChars == {" ", "g"}
GoalStrings == UNION {[1..n -> GoalChars] : n \in 0..(MAX_GOAL_LEN + 1)}

\* shapes of the data argument of execute_goal
Shapes == {"not_object", "no_payload", "payload_not_object",
           "goal_missing", "goal_not_string", "goal"}
AllDatas == {[shape |-> s, goal |-> <<>>] : s \in Shapes \ {"goal"}}
            \cup {[shape |-> "goal", goal |-> g] : g \in GoalStrings}

\* the data arguments the clients of Spec send: a payload that is no
\* object, a blank goal, and a goal of MAX_GOAL_LEN characters with padding
Datas == {[shape |-> "payload_not_object", goal |-> <<>>],
          [shape |-> "goal", goal |-> <<" ">>],
          [shape |-> "goal", goal |-> <<" ", "g", "g">>]}

\* plans run_planner can return (never empty: api_client.py 291-293)
Plans == {<<"s1">>, <<"s1", "s2">>}

VARIABLES
    now,        \* time.time()
    conn,       \* per client id: "new", "up", "down"
    shutdown,   \* _on_shutdown has run
    last,       \* _last_exec_ts (0 = no entry, the .get default)
    running,    \* _RUNNING_TASKS (0 = no entry), the id of the request's task
    req,        \* the execute_goal invocations, in order of arrival
    trace,      \* per client id: the events emit_json was called with
    sbx,        \* one call of the sandbox module (sandbox.py)
    pln,        \* one call of run_planner (api_client.py)
    nrm,        \* one call of _to_single_line (api_client.py)
    rty,        \* one call of _retry (api_client.py)
    wfl,        \* one workflow followed step by step (main.py _workflow)
    cpt         \* one call of _responses_create_compat (api_client.py)

\* the server: the handlers and workflow tasks of main.py
core == <<now, conn, shutdown, last, running, req, trace>>
\* the modules the workflow calls, each exercised by a specification of its own
lib == <<sbx, pln, nrm, rty, wfl, cpt>>

vars == <<now, conn, shutdown, last, running, req, trace, sbx, pln, nrm, rty, wfl, cpt>>

\* ---- pure helpers ----

\* the characters str.strip() and str.split() treat as whitespace (a
\* character is a one-symbol name: "nl" is "\n", "cr" is "\r", "tab" is
\* "\t", "ff" is "\f", "nul" is "\0", "bel" is "\x07"); shlex splits on the
\* first four of them
Whitespace == {" ", "nl", "cr", "tab", "ff"}

\* str.strip()
RECURSIVE LStrip(_)
LStrip(s) == IF s # <<>> /\ Head(s) \in Whitespace THEN LStrip(Tail(s)) ELSE s
RECURSIVE RStrip(_)
RStrip(s) == IF s # <<>> /\ s[Len(s)] \in Whitespace THEN RStrip(SubSeq(s, 1, Len(s) - 1)) ELSE s
Strip(s) == RStrip(LStrip(s))

\* _cat(msg, category): "[category] msg", kept as the pair (category, msg)
_cat(msg, category) == <<category, msg>>

Event(r, type, error, failed_step) ==
    [wf |-> r, type |-> type, error |-> error, failed_step |-> failed_step]

\* the event goes to every client
emit_json_to_all(tr, sid, ev) == [c \in Clients |-> Append(tr[c], ev)]

emit_json(tr, sid, ev) == [tr EXCEPT ![sid] = Append(@, ev)]

TaskEnded == {"done", "cancelled", "failed"}
\* task.done() of the task of request r
Done(r) == req[r].tpc \in TaskEnded


\* ---- admission (execute_goal, main.py 302-365) ----

\* line 312-314: now - last < MIN_EXECUTE_GOAL_INTERVAL_SEC
RateLimited(sid) == now - last[sid] < MIN_EXECUTE_GOAL_INTERVAL_SEC

\* the timestamp is taken before the test of the interval
LastAfterGateAlways(sid) == now

\* _last_exec_ts[sid] once the rate gate has run: line 324 returns before
\* line 325 assigns
LastAfterGate(sid) == IF RateLimited(sid) THEN last[sid] ELSE now

\* lines 328-365 on the data argument: "accepted", "invalid" (one of the
\* three validation emits) or "type_error" (ExecuteGoalPayload(**payload)
\* with a payload that is no mapping raises TypeError, which the
\* except (ValidationError, ValueError) of line 333 does not catch)
Validate(d) ==
    IF d.shape = "not_object" THEN "invalid"
    ELSE IF d.shape = "payload_not_object" THEN "type_error"
    ELSE IF d.shape \in {"no_payload", "goal_missing", "goal_not_string"} THEN "invalid"
    ELSE IF Len(Strip(d.goal)) = 0 THEN "invalid"
    ELSE IF Len(Strip(d.goal)) > MAX_GOAL_LEN THEN "invalid"
    ELSE "accepted"

\* a fresh invocation of execute_goal(sid, d); at is the time at which it
\* passed the rate gate (0: it did not)
NewRequest(sid, d) ==
    [sid |-> sid, data |-> d,
     hpc |-> "yield", verdict |-> "pending", prev |-> 0, at |-> 0,
     tpc |-> "none", cancelReq |-> FALSE,
     plan |-> <<>>, step_index |-> 0, replans |-> 0]

\* the gate with the timestamp taken only by a request that passed the
\* validation too
GateValidatesFirst(r, rq) ==
    LET sid == rq[r].sid
        passed == [rq EXCEPT ![r].at = now]
    IN  IF RateLimited(sid)
        THEN /\ req' = [rq EXCEPT ![r].hpc = "returned",
                                  ![r].verdict = "rate_limited"]
             /\ trace' = emit_json(trace, sid,
                    Event(r, "error_detected", _cat("Rate limit", "rate_limit"),
                          "rate_limit"))
             /\ UNCHANGED <<last, running>>
        ELSE IF Validate(rq[r].data) = "type_error"
        THEN /\ req' = [passed EXCEPT ![r].hpc = "raised",
                                      ![r].verdict = "type_error"]
             /\ UNCHANGED <<last, trace, running>>
        ELSE IF Validate(rq[r].data) = "invalid"
        THEN /\ req' = [passed EXCEPT ![r].hpc = "returned",
                                      ![r].verdict = "invalid"]
             /\ trace' = emit_json(trace, sid,
                    Event(r, "error_detected", _cat("Invalid goal", "validation"),
                          "validate"))
             /\ UNCHANGED <<last, running>>
        ELSE /\ req' = [passed EXCEPT ![r].hpc = "await",
                                      ![r].verdict = "accepted",
                                      ![r].tpc = "created"]
             /\ last' = [last EXCEPT ![sid] = now]
             /\ running' = [running EXCEPT ![sid] = r]
             /\ UNCHANGED trace

\* lines 311-365 and 618-622 for invocation r of the requests rq: the rate
\* gate, validation, and the spawn of the workflow task
Gate(r, rq) ==
    LET sid == rq[r].sid
        passed == [rq EXCEPT ![r].at = now]
    IN  /\ last' = [last EXCEPT ![sid] = LastAfterGate(sid)]
        /\ IF RateLimited(sid)
           THEN /\ req' = [rq EXCEPT ![r].hpc = "returned",
                                     ![r].verdict = "rate_limited"]
                /\ trace' = emit_json(trace, sid,
                       Event(r, "error_detected", _cat("Rate limit", "rate_limit"),
                             "rate_limit"))
                /\ UNCHANGED running
           ELSE IF Validate(rq[r].data) = "type_error"
           THEN /\ req' = [passed EXCEPT ![r].hpc = "raised",
                                         ![r].verdict = "type_error"]
                /\ UNCHANGED <<trace, running>>
           ELSE IF Validate(rq[r].data) = "invalid"
           THEN /\ req' = [passed EXCEPT ![r].hpc = "returned",
                                         ![r].verdict = "invalid"]
                /\ trace' = emit_json(trace, sid,
                       Event(r, "error_detected", _cat("Invalid goal", "validation"),
                             "validate"))
                /\ UNCHANGED running
           ELSE /\ req' = [passed EXCEPT ![r].hpc = "await",
                                         ![r].verdict = "accepted",
                                         ![r].tpc = "created"]
                /\ running' = [running EXCEPT ![sid] = r]
                /\ UNCHANGED trace

\* the previous task is looked up and not cancelled
CancelPreviousForgotten(rq, prev) == rq

\* prev.cancel(), line 308
CancelPrevious(rq, prev) == [rq EXCEPT ![prev].cancelReq = TRUE]

\* execute_goal up to its first await: lines 303-309, and when no previous
\* workflow is running the rest of the handler in the same callback
ExecuteGoal(sid, d) ==
    /\ conn[sid] = "up"
    /\ ~shutdown
    /\ Len(req) < MaxReq
    /\ LET r == Len(req) + 1
           prev == running[sid]
       IN  IF prev # 0 /\ ~Done(prev)
           THEN /\ req' = Append(CancelPrevious(req, prev),
                                 [NewRequest(sid, d) EXCEPT !.prev = prev])
                /\ UNCHANGED <<last, running, trace>>
           ELSE Gate(r, Append(req, NewRequest(sid, d)))
    /\ UNCHANGED <<lib, now, conn, shutdown>>

\* execute_goal after await asyncio.sleep(0) of line 309.  The callback
\* that delivers the cancellation to the previous task was queued before
\* this one (the event loop runs its ready callbacks first in, first out).
ResumeGoal(r) ==
    /\ r \in 1..Len(req)
    /\ req[r].hpc = "yield"
    /\ Done(req[r].prev) \/ ~req[req[r].prev].cancelReq
    /\ Gate(r, req)
    /\ UNCHANGED <<lib, now, conn, shutdown>>

\* ---- lifecycle ----

\* connect, lines 285-288
Connect(sid) ==
    /\ conn[sid] = "new"
    /\ ~shutdown
    /\ conn' = [conn EXCEPT ![sid] = "up"]
    /\ trace' = emit_json(trace, sid, Event(0, "status", <<>>, ""))
    /\ UNCHANGED <<lib, now, shutdown, last, running, req>>

\* disconnect, lines 291-297
Disconnect(sid) ==
    /\ conn[sid] = "up"
    /\ conn' = [conn EXCEPT ![sid] = "down"]
    /\ running' = [running EXCEPT ![sid] = 0]
    /\ req' = IF running[sid] # 0 /\ ~Done(running[sid])
              THEN [req EXCEPT ![running[sid]].cancelReq = TRUE]
              ELSE req
    /\ UNCHANGED <<lib, now, shutdown, last, trace>>

\* _on_shutdown, lines 270-279
Shutdown ==
    /\ ~shutdown
    /\ shutdown' = TRUE
    /\ req' = [r \in 1..Len(req) |->
                 IF (\E sid \in Clients : running[sid] = r) /\ ~Done(r)
                 THEN [req[r] EXCEPT !.cancelReq = TRUE]
                 ELSE req[r]]
    /\ UNCHANGED <<lib, now, conn, last, running, trace>>

\* the passing of time between two callbacks
Tick ==
    /\ now < MaxNow
    /\ now' = now + 1
    /\ UNCHANGED <<lib, conn, shutdown, last, running, req, trace>>

\* ---- the workflow task (_workflow, main.py 367-616) ----

\* the task of request r is suspended at position pc and no cancellation
\* is pending for it
At(r, pc) ==
    /\ r \in 1..Len(req)
    /\ req[r].tpc = pc
    /\ ~req[r].cancelReq

\* the task ends: "done" (returned), "cancelled" or "failed" (an exception
\* other than CancelledError left it); await task of lines 621-625 then
\* returns, swallows the CancelledError, or raises
Finish(rq, r, how) ==
    [rq EXCEPT ![r].tpc = how,
               ![r].hpc = IF how = "failed" THEN "raised" ELSE "returned"]

\* the finally clause, lines 612-616
Cleanup(r) ==
    IF running[req[r].sid] = r THEN [running EXCEPT ![req[r].sid] = 0] ELSE running

\* the task moves to its next suspension point, emitting ev on the way
Goto(r, pc, ev) ==
    /\ req' = [req EXCEPT ![r].tpc = pc]
    /\ trace' = emit_json(trace, req[r].sid, ev)
    /\ UNCHANGED <<lib, now, conn, shutdown, last, running>>

\* the task ends through the finally clause
EndTask(r, how) ==
    /\ req' = Finish(req, r, how)
    /\ running' = Cleanup(r)
    /\ UNCHANGED <<lib, now, conn, shutdown, last, trace>>

\* where a CancelledError raised at position pc takes the task:
\* before the first callback the body never runs; inside the handler of
\* lines 600-610 it leaves the task; anywhere else in the try block it
\* reaches that handler, which emits error_detected[cancelled]
OnCancel(pc) ==
    IF pc = "created" THEN "never_ran"
    ELSE IF pc = "emit_cancelled" THEN "cancelled"
    ELSE "emit_cancelled"

\* the callback of a task with a pending cancellation
DeliverCancel(r) ==
    /\ r \in 1..Len(req)
    /\ req[r].cancelReq
    /\ req[r].tpc \notin TaskEnded \cup {"none"}
    /\ LET seen == [req EXCEPT ![r].cancelReq = FALSE]
           to == OnCancel(req[r].tpc)
       IN  IF to = "never_ran"
           THEN /\ req' = Finish(seen, r, "cancelled")
                /\ UNCHANGED <<running, trace>>
           ELSE IF to = "cancelled"
           THEN /\ req' = Finish(seen, r, "cancelled")
                /\ running' = Cleanup(r)
                /\ UNCHANGED trace
           ELSE /\ req' = [seen EXCEPT ![r].tpc = to]
                /\ trace' = emit_json(trace, req[r].sid,
                       Event(r, "error_detected",
                             _cat("Workflow cancelled", "cancelled"), "cancel"))
                /\ UNCHANGED running
    /\ UNCHANGED <<lib, now, conn, shutdown, last>>

\* first callback: lines 368-378, up to await asyncio.to_thread(run_planner)
StartWorkflow(r) ==
    /\ At(r, "created")
    /\ req' = [req EXCEPT ![r].tpc = "planning"]
    /\ UNCHANGED <<lib, now, conn, shutdown, last, running, trace>>

\* run_planner returned plan p: lines 391-396
PlannerReturns(r, p) ==
    /\ At(r, "planning")
    /\ req' = [req EXCEPT ![r].tpc = "emit_plan", ![r].plan = p, ![r].step_index = 0]
    /\ trace' = emit_json(trace, req[r].sid, Event(r, "plan_generated", <<>>, ""))
    /\ UNCHANGED <<lib, now, conn, shutdown, last, running>>

\* run_planner raised: lines 379-388
PlannerRaises(r) ==
    /\ At(r, "planning")
    /\ Goto(r, "emit_plan_err",
            Event(r, "error_detected", _cat("Planner error", "planner"), "planning"))

\* return of line 389 or of lines 490 and 587, through the finally clause
ReturnAfterError(r) ==
    /\ At(r, "emit_plan_err") \/ At(r, "emit_replan_err")
    /\ EndTask(r, "done")

\* the loop test of line 402 after a plan_generated: into the loop up to
\* await asyncio.sleep(0), or past it to workflow_complete (lines 592-597)
EnterLoop(r) ==
    /\ At(r, "emit_plan") \/ At(r, "emit_newplan")
    /\ IF req[r].step_index < Len(req[r].plan)
       THEN /\ req' = [req EXCEPT ![r].tpc = "loop_sleep"]
            /\ UNCHANGED <<lib, now, conn, shutdown, last, running, trace>>
       ELSE Goto(r, "emit_complete", Event(r, "workflow_complete", <<>>, ""))

\* lines 406-417: up to await asyncio.to_thread(run_executor)
Translate(r) ==
    /\ At(r, "loop_sleep")
    /\ req' = [req EXCEPT ![r].tpc = "translating"]
    /\ UNCHANGED <<lib, now, conn, shutdown, last, running, trace>>

\* run_executor returned a command that passes the forbidden-prefix test
\* of lines 421-429: step_executing, lines 492-497
TranslatorReturns(r) ==
    /\ At(r, "translating")
    /\ Goto(r, "emit_step_exec", Event(r, "step_executing", <<>>, ""))

\* the failed translations of all workflows so far
RECURSIVE TotalReplans(_)
TotalReplans(rq) ==
    IF rq = <<>> THEN 0 ELSE Head(rq).replans + TotalReplans(Tail(rq))

\* run_executor raised, or returned a forbidden command: lines 439-454
TranslatorFails(r) ==
    /\ At(r, "translating")
    /\ TotalReplans(req) < MaxReplans
    /\ req' = [req EXCEPT ![r].tpc = "emit_exec_err", ![r].replans = @ + 1]
    /\ trace' = emit_json(trace, req[r].sid,
           Event(r, "error_detected", _cat("Executor error", "executor"),
                 req[r].plan[req[r].step_index + 1]))
    /\ UNCHANGED <<lib, now, conn, shutdown, last, running>>

\* the re-plan starts without its announcement
EmitRePlanningSkipped(r) ==
    /\ At(r, "emit_exec_err")
    /\ req' = [req EXCEPT ![r].tpc = "emit_replan"]
    /\ UNCHANGED <<lib, now, conn, shutdown, last, running, trace>>

\* line 456
EmitRePlanning(r) ==
    /\ At(r, "emit_exec_err")
    /\ Goto(r, "emit_replan", Event(r, "re_planning", <<>>, ""))

\* lines 457-467: up to await asyncio.to_thread(run_planner)
RePlan(r) ==
    /\ At(r, "emit_replan")
    /\ req' = [req EXCEPT ![r].tpc = "replanning"]
    /\ UNCHANGED <<lib, now, conn, shutdown, last, running, trace>>

\* the re-plan returned p: lines 468-474
RePlanReturns(r, p) ==
    /\ At(r, "replanning")
    /\ req' = [req EXCEPT ![r].tpc = "emit_newplan", ![r].plan = p, ![r].step_index = 0]
    /\ trace' = emit_json(trace, req[r].sid, Event(r, "plan_generated", <<>>, ""))
    /\ UNCHANGED <<lib, now, conn, shutdown, last, running>>

\* the re-plan raised: lines 475-490
RePlanRaises(r) ==
    /\ At(r, "replanning")
    /\ Goto(r, "emit_replan_err",
            Event(r, "error_detected", _cat("Re-planning failed", "planner"),
                  req[r].plan[req[r].step_index + 1]))

\* the exception of the sandbox call is swallowed and the loop goes on
SandboxCallSwallowed == "loop_sleep"

\* sandbox.execute_command called on the event loop thread (line 503):
\* asyncio.run (sandbox.py 139) refuses to run inside a running loop and
\* raises RuntimeError.  No except clause of _workflow catches it, so the
\* task ends "failed" through the finally clause.
SandboxCall == "failed"

\* the command runs though a cancellation is pending
RunSandboxDespiteCancel(r) ==
    /\ r \in 1..Len(req)
    /\ req[r].tpc = "emit_step_exec"
    /\ EndTask(r, "failed")

\* after the emit of step_executing: line 503
RunSandbox(r) ==
    /\ At(r, "emit_step_exec")
    /\ IF SandboxCall = "failed"
       THEN EndTask(r, "failed")
       ELSE /\ req' = [req EXCEPT ![r].tpc = SandboxCall]
            /\ UNCHANGED <<lib, now, conn, shutdown, last, running, trace>>

\* after the emit of error_detected[cancelled]: raise of line 610
EndCancelled(r) ==
    /\ At(r, "emit_cancelled")
    /\ EndTask(r, "cancelled")

\* ---- specification ----

\* the client ids that connect in a run of Spec; the other ids of Clients
\* belong to connections that are already gone
Present == {"c1"}

\* no call of a library module is in progress
Off == [pc |-> "off"]

InitCore ==
    /\ now = MIN_EXECUTE_GOAL_INTERVAL_SEC
    /\ conn = [c \in Clients |-> IF c \in Present THEN "new" ELSE "down"]
    /\ shutdown = FALSE
    /\ last = [c \in Clients |-> 0]
    /\ running = [c \in Clients |-> 0]
    /\ req = <<>>
    /\ trace = [c \in Clients |-> <<>>]

Init ==
    /\ InitCore
    /\ sbx = Off
    /\ pln = Off
    /\ nrm = Off
    /\ rty = Off
    /\ wfl = Off
    /\ cpt = Off

Next ==
    \/ Tick
    \/ Shutdown
    \/ \E sid \in Clients : Connect(sid)
    \/ \E sid \in Clients : Disconnect(sid)
    \/ \E sid \in Clients, d \in Datas : ExecuteGoal(sid, d)
    \/ \E r \in 1..MaxReq : ResumeGoal(r)
    \/ \E r \in 1..MaxReq : DeliverCancel(r)
    \/ \E r \in 1..MaxReq : StartWorkflow(r)
    \/ \E r \in 1..MaxReq, p \in Plans : PlannerReturns(r, p)
    \/ \E r \in 1..MaxReq : PlannerRaises(r)
    \/ \E r \in 1..MaxReq : ReturnAfterError(r)
    \/ \E r \in 1..MaxReq : EnterLoop(r)
    \/ \E r \in 1..MaxReq : Translate(r)
    \/ \E r \in 1..MaxReq : TranslatorReturns(r)
    \/ \E r \in 1..MaxReq : TranslatorFails(r)
    \/ \E r \in 1..MaxReq : EmitRePlanning(r)
    \/ \E r \in 1..MaxReq : RePlan(r)
    \/ \E r \in 1..MaxReq, p \in Plans : RePlanReturns(r, p)
    \/ \E r \in 1..MaxReq : RePlanRaises(r)
    \/ \E r \in 1..MaxReq : RunSandbox(r)
    \/ \E r \in 1..MaxReq : EndCancelled(r)

Spec == Init /\ [][Next]_vars

\* admission alone: every shape of data, and of the workflow tasks only
\* their first callback and their cancellation
NextAdmission ==
    \/ Tick
    \/ \E sid \in Clients : Connect(sid)
    \/ \E sid \in Clients, d \in AllDatas : ExecuteGoal(sid, d)
    \/ \E r \in 1..MaxReq : ResumeGoal(r)
    \/ \E r \in 1..MaxReq : DeliverCancel(r)
    \/ \E r \in 1..MaxReq : StartWorkflow(r)
    \/ \E r \in 1..MaxReq : EndCancelled(r)

SpecAdmission == Init /\ [][NextAdmission]_vars

\* two clients connect; of the workflow tasks their planning and their
\* cancellation
InitTwoClients ==
    /\ now = MIN_EXECUTE_GOAL_INTERVAL_SEC
    /\ conn = [c \in Clients |-> "new"]
    /\ shutdown = FALSE
    /\ last = [c \in Clients |-> 0]
    /\ running = [c \in Clients |-> 0]
    /\ req = <<>>
    /\ trace = [c \in Clients |-> <<>>]
    /\ sbx = Off
    /\ pln = Off
    /\ nrm = Off
    /\ rty = Off
    /\ wfl = Off
    /\ cpt = Off

NextTwoClients ==
    \/ Tick
    \/ \E sid \in Clients : Connect(sid)
    \/ \E sid \in Clients : Disconnect(sid)
    \/ \E sid \in Clients, d \in Datas : ExecuteGoal(sid, d)
    \/ \E r \in 1..MaxReq : ResumeGoal(r)
    \/ \E r \in 1..MaxReq : DeliverCancel(r)
    \/ \E r \in 1..MaxReq : StartWorkflow(r)
    \/ \E r \in 1..MaxReq, p \in Plans : PlannerReturns(r, p)
    \/ \E r \in 1..MaxReq : PlannerRaises(r)
    \/ \E r \in 1..MaxReq : ReturnAfterError(r)
    \/ \E r \in 1..MaxReq : EndCancelled(r)

SpecTwoClients == InitTwoClients /\ [][NextTwoClients]_vars


\* ---- the sandbox (sandbox.py) ----

\* a command is a sequence of characters: two letters (the commands "e"
\* and "u"), the space, a quote, and the characters the sanitizer is about
CmdChars == {"e", "u", " ", "'", "nl", "cr", "nul", "bel"}
Commands == UNION {[1..n -> CmdChars] : n \in 0..MaxCmdLen}

\* the environment of a call: MAX_COMMAND_LEN, SANDBOX_STRICT_SANITIZE,
\* SANDBOX_CMD_ALLOWLIST (as _split_allowlist returns it, lines 18-22),
\* SANDBOX_FORCE_LOCAL and SANDBOX_USER
Envs == [max_len : {0, 10}, strict : BOOLEAN,
         allow : {{}, {<<"e">>}, {<<"s">>}},
         force_local : BOOLEAN, user : {"sandboxuser"}]

\* "source '<cwd>/.venv_demo/bin/activate' && " of lines 130-131: the word
\* source ("s"), the quoted path ("p") and the operator ("&")
VenvPrefix == <<"s", " ", "'", "p", "'", " ", "&", " ">>
Wrap(command) == VenvPrefix \o command

Contains(s, chars) == \E i \in 1..Len(s) : s[i] \in chars

\* what stands for the ValueError of shlex.split (no closing quotation)
ShlexError == <<"error">>

\* shlex.split(cmd)[0], line 55: ShlexError when a quotation is left open,
\* else the first word with its quotes removed
RECURSIVE Word(_, _)
Word(s, quoted) ==
    IF s = <<>> THEN <<>>
    ELSE IF Head(s) = "'" THEN Word(Tail(s), ~quoted)
    ELSE IF Head(s) \in Whitespace /\ ~quoted THEN <<>>
    ELSE <<Head(s)>> \o Word(Tail(s), quoted)

FirstToken(cmd) ==
    IF Cardinality({i \in 1..Len(cmd) : cmd[i] = "'"}) % 2 = 1 THEN ShlexError
    ELSE Word(LStrip(cmd), FALSE)

\* the sanitizer without the rule of lines 42-43
SanitizeWithoutNewlineRule(cmd, env) ==
    IF Strip(cmd) = <<>> THEN [ok |-> FALSE, reason |-> "empty"]
    ELSE IF Len(cmd) > env.max_len THEN [ok |-> FALSE, reason |-> "too_long"]
    ELSE IF env.strict /\ Contains(cmd, {"nul", "bel"})
    THEN [ok |-> FALSE, reason |-> "control"]
    ELSE IF env.allow # {} /\ FirstToken(cmd) = ShlexError
    THEN [ok |-> FALSE, reason |-> "unparsable"]
    ELSE IF env.allow # {} /\ FirstToken(cmd) \notin env.allow
    THEN [ok |-> FALSE, reason |-> "not_permitted"]
    ELSE [ok |-> TRUE, reason |-> ""]

\* _sanitize_command, lines 25-61
_sanitize_command(cmd, env) ==
    IF Strip(cmd) = <<>> THEN [ok |-> FALSE, reason |-> "empty"]
    ELSE IF Len(cmd) > env.max_len THEN [ok |-> FALSE, reason |-> "too_long"]
    ELSE IF Contains(cmd, {"nl", "cr", "nul"}) THEN [ok |-> FALSE, reason |-> "newline"]
    ELSE IF env.strict /\ Contains(cmd, {"nul", "bel"})
    THEN [ok |-> FALSE, reason |-> "control"]
    ELSE IF env.allow # {} /\ FirstToken(cmd) = ShlexError
    THEN [ok |-> FALSE, reason |-> "unparsable"]
    ELSE IF env.allow # {} /\ FirstToken(cmd) \notin env.allow
    THEN [ok |-> FALSE, reason |-> "not_permitted"]
    ELSE [ok |-> TRUE, reason |-> ""]

\* the executor trusts the command it is given
GateOpen(command, env) == [ok |-> TRUE, reason |-> ""]

\* line 67: the executor's call of the sanitizer
GateCommand(command, env) == _sanitize_command(command, env)

SudoArgv(user, command) == <<"sudo", "-u", user, "bash", "-lc", command>>
\* asyncio.create_subprocess_shell(command), line 76
ShellArgv(command) == <<"sh", "-c", command>>

\* a call of the sandbox with command cmd under env, not yet made; sudo is
\* what shutil.which("sudo") finds during the call (line 92)
SandboxCallOf(cmd, env) ==
    [pc |-> "idle", cmd |-> cmd, env |-> env, entry |-> "", shell |-> <<>>,
     sudo |-> FALSE, spawned |-> <<>>, result |-> [stdout |-> "", stderr |-> <<>>, exit_code |-> 0]]

Result(stderr, exit_code) == [stdout |-> "", stderr |-> stderr, exit_code |-> exit_code]

\* _execute_command_unmanaged_async(command) up to its first await,
\* lines 67-116; sudo: shutil.which("sudo") finds the wrapper
Unmanaged(entry, command, sudo) ==
    LET d == GateCommand(command, sbx.env)
        c == [sbx EXCEPT !.entry = entry, !.shell = command, !.sudo = sudo]
    IN  IF ~d.ok
        THEN [c EXCEPT !.pc = "returned",
                       !.result = Result(<<"Rejected", d.reason>>, -2)]
        ELSE IF ~sbx.env.force_local /\ sudo
        THEN [c EXCEPT !.pc = "sudo",
                       !.spawned = Append(@, SudoArgv("root", command))]
        ELSE [c EXCEPT !.pc = "local", !.spawned = Append(@, ShellArgv(command))]

\* asyncio.run called inside a running event loop raises RuntimeError
RunsInLoop(entry) == [sbx EXCEPT !.entry = entry, !.pc = "raised"]

\* a direct call of _sanitize_command(cmd)
SanitizeCommand ==
    /\ sbx.pc = "idle"
    /\ sbx' = [sbx EXCEPT !.entry = "_sanitize_command", !.pc = "returned",
                 !.result = LET d == _sanitize_command(sbx.cmd, sbx.env)
                            IN  Result(<<IF d.ok THEN "Accepted" ELSE "Rejected",
                                         d.reason>>, 0)]
    /\ UNCHANGED <<core, pln, nrm, rty, wfl, cpt>>

\* execute_command_async, lines 126-132
ExecuteCommandAsync(sudo) ==
    /\ sbx.pc = "idle"
    /\ sbx' = Unmanaged("execute_command_async", Wrap(sbx.cmd), sudo)
    /\ UNCHANGED <<core, pln, nrm, rty, wfl, cpt>>

\* execute_command, lines 135-139, from a thread with a running event loop
\* (in_loop) or without one
ExecuteCommand(in_loop, sudo) ==
    /\ sbx.pc = "idle"
    /\ sbx' = IF in_loop THEN RunsInLoop("execute_command")
              ELSE Unmanaged("execute_command", Wrap(sbx.cmd), sudo)
    /\ UNCHANGED <<core, pln, nrm, rty, wfl, cpt>>

\* _execute_command_unmanaged, lines 119-123
ExecuteCommandUnmanaged(in_loop, sudo) ==
    /\ sbx.pc = "idle"
    /\ sbx' = IF in_loop THEN RunsInLoop("_execute_command_unmanaged")
              ELSE Unmanaged("_execute_command_unmanaged", sbx.cmd, sudo)
    /\ UNCHANGED <<core, pln, nrm, rty, wfl, cpt>>

\* the sudo child exits with code: lines 105-110
SudoExits(code) ==
    /\ sbx.pc = "sudo"
    /\ sbx' = [sbx EXCEPT !.pc = "returned", !.result = Result(<<>>, code)]
    /\ UNCHANGED <<core, pln, nrm, rty, wfl, cpt>>

\* create_subprocess_exec or communicate raised: lines 111-112
SudoRaises ==
    /\ sbx.pc = "sudo"
    /\ sbx' = [sbx EXCEPT !.pc = "local",
                          !.spawned = Append(@, ShellArgv(sbx.shell))]
    /\ UNCHANGED <<core, pln, nrm, rty, wfl, cpt>>

\* the local child exits with code: lines 81-86
LocalExits(code) ==
    /\ sbx.pc = "local"
    /\ sbx' = [sbx EXCEPT !.pc = "returned", !.result = Result(<<>>, code)]
    /\ UNCHANGED <<core, pln, nrm, rty, wfl, cpt>>

\* create_subprocess_shell or communicate raised: lines 87-88
LocalRaises ==
    /\ sbx.pc = "local"
    /\ sbx' = [sbx EXCEPT !.pc = "returned", !.result = Result(<<"error">>, -1)]
    /\ UNCHANGED <<core, pln, nrm, rty, wfl, cpt>>

ExitCodes == {0, 1}

InitSandbox ==
    /\ InitCore
    /\ sbx \in {SandboxCallOf(c, e) : c \in Commands, e \in Envs}
    /\ pln = Off
    /\ nrm = Off
    /\ rty = Off
    /\ wfl = Off
    /\ cpt = Off

NextSandbox ==
    \/ SanitizeCommand
    \/ \E sudo \in BOOLEAN : ExecuteCommandAsync(sudo)
    \/ \E in_loop, sudo \in BOOLEAN : ExecuteCommand(in_loop, sudo)
    \/ \E in_loop, sudo \in BOOLEAN : ExecuteCommandUnmanaged(in_loop, sudo)
    \/ \E code \in ExitCodes : SudoExits(code)
    \/ SudoRaises
    \/ \E code \in ExitCodes : LocalExits(code)
    \/ LocalRaises

SpecSandbox == InitSandbox /\ [][NextSandbox]_vars


\* ---- the planner client (api_client.py run_planner) ----

\* a step is a string over one whitespace and one other character
StepChars == {" ", "a"}
StepStrings == UNION {[1..n -> StepChars] : n \in 0..MaxStepLen}
ItemLists == UNION {[1..n -> StepStrings] : n \in 0..MaxPlanItems}

\* lines of a plain-text answer: a bare step, a bulleted one, one with two
\* spaces after its bullet, two numbered ones and a blank line
TextLines == {<<"a">>, <<"-", " ", "a">>, <<"-", " ", " ", "a">>,
              <<"1", ".", " ", "a">>, <<"4", ".", " ", "a">>, <<" ">>}
LineLists == UNION {[1..n -> TextLines] : n \in 0..MaxPlanItems}

\* the text of the upstream response, by what json.loads makes of it: an
\* object with a list "plan", a list, other JSON (its text is one line), or
\* no JSON (its lines)
Responses ==
    {[kind |-> "json_plan", items |-> l] : l \in ItemLists}
    \cup {[kind |-> "json_list", items |-> l] : l \in ItemLists}
    \cup {[kind |-> "json_other", items |-> << <<"{", "}">> >>]}
    \cup {[kind |-> "text", items |-> l] : l \in LineLists}

\* the items are kept as they are
StepsOfUntrimmed(items) == items

\* [str(x).strip() for x in items if str(x).strip()], lines 156, 158, 284
RECURSIVE StepsOf(_)
StepsOf(items) ==
    IF items = <<>> THEN <<>>
    ELSE IF Strip(Head(items)) = <<>> THEN StepsOf(Tail(items))
    ELSE <<Strip(Head(items))>> \o StepsOf(Tail(items))

\* the prefixes of line 169, in the order of the loop
Prefixes == << <<"-", " ">>, <<"*", " ">>, <<"bullet", " ">>,
               <<"1", ".", " ">>, <<"2", ".", " ">>, <<"3", ".", " ">> >>

StartsWith(s, prefix) ==
    Len(s) >= Len(prefix) /\ SubSeq(s, 1, Len(prefix)) = prefix

\* lines 169-171: every prefix in turn is cut off what is left of the line
RECURSIVE CutPrefixes(_, _)
CutPrefixes(raw, prefixes) ==
    IF prefixes = <<>> THEN raw
    ELSE IF StartsWith(raw, Head(prefixes))
    THEN CutPrefixes(SubSeq(raw, Len(Head(prefixes)) + 1, Len(raw)), Tail(prefixes))
    ELSE CutPrefixes(raw, Tail(prefixes))

\* lines 163-174: the plain-text fallback
RECURSIVE StepsOfLines(_)
StepsOfLines(lines) ==
    IF lines = <<>> THEN <<>>
    ELSE LET raw == Strip(Head(lines))
             cut == CutPrefixes(raw, Prefixes)
         IN  IF raw = <<>> \/ cut = <<>> THEN StepsOfLines(Tail(lines))
             ELSE <<cut>> \o StepsOfLines(Tail(lines))

\* _parse_plan_text_to_list, lines 146-174
_parse_plan_text_to_list(resp) ==
    IF resp.kind \in {"json_plan", "json_list"} THEN StepsOf(resp.items)
    ELSE StepsOfLines(resp.items)

\* the goal of the harness and the one-step plan of line 293
PlannerGoal == <<"g">>
FallbackPlan(user_goal) == << <<"Analyze and begin: ">> \o user_goal >>

\* run_planner after _retry(_call) returned resp, lines 277-294; strict is
\* PLANNER_STRICT_JSON
run_planner(resp, user_goal, strict) ==
    LET steps == IF strict /\ resp.kind = "json_plan" THEN StepsOf(resp.items)
                 ELSE _parse_plan_text_to_list(resp)
    IN  IF steps = <<>> THEN FallbackPlan(user_goal) ELSE steps

PlannerCallOf(resp, strict) ==
    [pc |-> "idle", resp |-> resp, strict |-> strict, steps |-> <<>>]

\* run_planner returns
RunPlanner ==
    /\ pln.pc = "idle"
    /\ pln' = [pln EXCEPT !.pc = "returned",
                          !.steps = run_planner(pln.resp, PlannerGoal, pln.strict)]
    /\ UNCHANGED <<core, sbx, nrm, rty, wfl, cpt>>

\* _retry(_call) of line 276 raises: run_planner raises
RunPlannerRaises ==
    /\ pln.pc = "idle"
    /\ pln' = [pln EXCEPT !.pc = "raised"]
    /\ UNCHANGED <<core, sbx, nrm, rty, wfl, cpt>>

InitPlanner ==
    /\ InitCore
    /\ pln \in {PlannerCallOf(r, st) : r \in Responses, st \in BOOLEAN}
    /\ sbx = Off
    /\ nrm = Off
    /\ rty = Off
    /\ wfl = Off
    /\ cpt = Off

NextPlanner ==
    \/ RunPlanner
    \/ RunPlannerRaises

SpecPlanner == InitPlanner /\ [][NextPlanner]_vars


\* ---- the translator client (api_client.py run_executor) ----

NormChars == {"a", " ", "nl", "cr", "tab", "ff"}
NormStrings == UNION {[1..n -> NormChars] : n \in 0..MaxTextLen}

\* cmd.replace("\t", " ").replace("\r", " ").replace("\n", " "), line 373
Replace(cmd) ==
    [i \in 1..Len(cmd) |-> IF cmd[i] \in {"tab", "cr", "nl"} THEN " " ELSE cmd[i]]

\* the first word of s, which starts with no whitespace
RECURSIVE FirstWord(_)
FirstWord(s) ==
    IF s = <<>> \/ Head(s) \in Whitespace THEN <<>>
    ELSE <<Head(s)>> \o FirstWord(Tail(s))

\* str.split(): the maximal runs of characters that are not whitespace
RECURSIVE Split(_)
Split(s) ==
    LET t == LStrip(s)
    IN  IF t = <<>> THEN <<>>
        ELSE <<FirstWord(t)>> \o Split(SubSeq(t, Len(FirstWord(t)) + 1, Len(t)))

\* " ".join(words)
RECURSIVE Join(_)
Join(words) ==
    IF words = <<>> THEN <<>>
    ELSE IF Len(words) = 1 THEN Head(words)
    ELSE Head(words) \o <<" ">> \o Join(Tail(words))

\* newlines and tabs become spaces and nothing is collapsed
ToSingleLineUncollapsed(cmd) == Strip(Replace(cmd))

\* _to_single_line, lines 366-374
_to_single_line(cmd) == Strip(Join(Split(Replace(cmd))))

\* the command of the emit_bash function call, or of the JSON object of the
\* text answer: none, or one of two lines
StructuredCommands == {<<>>, <<"a", "nl", "a">>}

\* run_executor after _retry returned, lines 447-468: text is the output
\* text and command the structured command of the response
run_executor(text, command, strict) ==
    IF strict
    THEN _to_single_line(IF Strip(command) # <<>> THEN Strip(command) ELSE text)
    ELSE _to_single_line(IF Strip(command) # <<>> THEN command ELSE text)

ExecutorCallOf(text, command) ==
    [pc |-> "idle", text |-> text, command |-> command, once |-> <<>>, twice |-> <<>>]

\* run_executor returns its command
RunExecutor(strict) ==
    /\ nrm.pc = "idle"
    /\ nrm' = [nrm EXCEPT !.pc = "once",
                          !.once = run_executor(nrm.text, nrm.command, strict)]
    /\ UNCHANGED <<core, sbx, pln, rty, wfl, cpt>>

\* the returned command is normalized a second time
Renormalize ==
    /\ nrm.pc = "once"
    /\ nrm' = [nrm EXCEPT !.pc = "twice", !.twice = _to_single_line(nrm.once)]
    /\ UNCHANGED <<core, sbx, pln, rty, wfl, cpt>>

InitNormalize ==
    /\ InitCore
    /\ nrm \in {ExecutorCallOf(t, c) : t \in NormStrings, c \in StructuredCommands}
    /\ sbx = Off
    /\ pln = Off
    /\ rty = Off
    /\ wfl = Off
    /\ cpt = Off

NextNormalize ==
    \/ \E strict \in BOOLEAN : RunExecutor(strict)
    \/ Renormalize

SpecNormalize == InitNormalize /\ [][NextNormalize]_vars


\* ---- retries of the upstream call (api_client.py _retry) ----

\* what one call of fn() does: it returns, raises an APIError with a
\* status_code (0: it has none), or raises another exception
Outcomes ==
    {[kind |-> "ok", status |-> 0], [kind |-> "Exception", status |-> 0]}
    \cup {[kind |-> "APIError", status |-> st] :
              st \in {0, 400, 429, 500, 502, 503, 504}}

\* line 70
transient == {429, 500, 502, 503, 504}

\* the errors after which lines 66-84 go on: an APIError with a transient
\* status (line 71), and every exception that is no APIError (line 79)
Retried(e) ==
    \/ e.kind = "APIError" /\ e.status \in transient
    \/ e.kind = "Exception"

\* the same pause before every retry
BackoffFlat(i) == BACKOFF_QUARTERS

\* backoff * (2**i) in quarters of a second, lines 75 and 84
Backoff(i) == BACKOFF_QUARTERS * (2 ^ i)

\* _retry(fn) about to call fn() for the first time
RetryCall ==
    [pc |-> "call", i |-> 0, calls |-> <<>>, sleeps |-> <<>>, raised |-> <<>>]

\* fn() returns: line 65
FnReturns ==
    /\ rty.pc = "call"
    /\ rty' = [rty EXCEPT !.pc = "returned",
                          !.calls = Append(@, [kind |-> "ok", status |-> 0])]
    /\ UNCHANGED <<core, sbx, pln, nrm, wfl, cpt>>

\* fn() raises e: lines 66-84, up to the raise or into time.sleep
FnRaises(e) ==
    /\ rty.pc = "call"
    /\ e.kind # "ok"
    /\ rty' = IF Retried(e) /\ rty.i < RETRIES
              THEN [rty EXCEPT !.pc = "sleep",
                               !.calls = Append(@, e),
                               !.sleeps = Append(@, Backoff(rty.i))]
              ELSE [rty EXCEPT !.pc = "raised", !.calls = Append(@, e),
                               !.raised = <<e>>]
    /\ UNCHANGED <<core, sbx, pln, nrm, wfl, cpt>>

\* time.sleep returns and the loop of line 63 goes on
Wake ==
    /\ rty.pc = "sleep"
    /\ rty' = [rty EXCEPT !.pc = "call", !.i = @ + 1]
    /\ UNCHANGED <<core, sbx, pln, nrm, wfl, cpt>>

InitRetry ==
    /\ InitCore
    /\ rty = RetryCall
    /\ sbx = Off
    /\ pln = Off
    /\ nrm = Off
    /\ wfl = Off
    /\ cpt = Off

NextRetry ==
    \/ FnReturns
    \/ \E e \in Outcomes : FnRaises(e)
    \/ Wake

SpecRetry == InitRetry /\ [][NextRetry]_vars

\* fn() returns or raises, and time.sleep returns
SpecRetryFair == SpecRetry /\ WF_vars(NextRetry)


\* ---- the compatibility wrapper (api_client.py _responses_create_compat) ----

\* the keyword arguments every caller passes (lines 255-257, 411, 427)
RequiredFields == {"model", "input"}

\* lines 96-104
optional_drop_order_reversed ==
    <<"previous_response_id", "metadata", "text", "reasoning", "tool_choice",
      "tools", "response_format">>

optional_drop_order ==
    <<"response_format", "tools", "tool_choice", "reasoning", "text",
      "metadata", "previous_response_id">>

\* the keyword arguments of a call: the required ones and any of the
\* optional ones
Kwargs ==
    {RequiredFields \cup o :
        o \in SUBSET {optional_drop_order[i] : i \in 1..Len(optional_drop_order)}}

\* the for loop of lines 113-117: the first key of order that kw contains
\* (0: none)
FirstPresent(order, kw) ==
    IF \E i \in 1..Len(order) : order[i] \in kw
    THEN CHOOSE i \in 1..Len(order) :
             order[i] \in kw /\ \A j \in 1..(i - 1) : order[j] \notin kw
    ELSE 0

\* lines 96-107: the state of a call before its first attempt; rounds is
\* the range of the loop of line 107, fixed when the loop starts
CompatCall(kwargs) ==
    [pc |-> "create", kwargs |-> kwargs, attempt_kwargs |-> kwargs,
     optional_drop_order |-> optional_drop_order,
     rounds |-> Len(optional_drop_order) + 1, round |-> 1,
     attempts |-> <<>>, result |-> "none"]

\* attempts holds, for every call of client.responses.create, its
\* arguments and its outcome

\* line 109: create returns, and the wrapper returns its response
CreateReturns ==
    /\ cpt.pc = "create"
    /\ cpt' = [cpt EXCEPT !.pc = "returned", !.result = "response",
                          !.attempts = Append(@, [kwargs |-> cpt.attempt_kwargs, outcome |-> "response"])]
    /\ UNCHANGED <<core, sbx, pln, nrm, rty, wfl>>

\* create raises an exception that is no TypeError: it leaves the wrapper
CreateRaises ==
    /\ cpt.pc = "create"
    /\ cpt' = [cpt EXCEPT !.pc = "raised", !.result = "Exception",
                          !.attempts = Append(@, [kwargs |-> cpt.attempt_kwargs, outcome |-> "Exception"])]
    /\ UNCHANGED <<core, sbx, pln, nrm, rty, wfl>>

\* lines 110-123: create raises TypeError.  With no key left in the order,
\* or none of them among the arguments, the TypeError is raised again;
\* else the first such key leaves the arguments and the order, and the
\* loop goes on, or ends, and the function returns None
CreateRaisesTypeError ==
    /\ cpt.pc = "create"
    /\ LET tried == [cpt EXCEPT !.attempts = Append(@, [kwargs |-> cpt.attempt_kwargs, outcome |-> "TypeError"])]
           i == FirstPresent(cpt.optional_drop_order, cpt.attempt_kwargs)
       IN  IF cpt.optional_drop_order = <<>> \/ i = 0
           THEN cpt' = [tried EXCEPT !.pc = "raised", !.result = "TypeError"]
           ELSE cpt' = [tried EXCEPT
                            !.attempt_kwargs = @ \ {cpt.optional_drop_order[i]},
                            !.optional_drop_order =
                                SubSeq(@, 1, i - 1) \o SubSeq(@, i + 1, Len(@)),
                            !.round = @ + 1,
                            !.pc = IF cpt.round < cpt.rounds THEN "create"
                                   ELSE "returned",
                            !.result = IF cpt.round < cpt.rounds THEN "none"
                                       ELSE "None"]
    /\ UNCHANGED <<core, sbx, pln, nrm, rty, wfl>>

InitCompat ==
    /\ InitCore
    /\ cpt \in {CompatCall(k) : k \in Kwargs}
    /\ sbx = Off
    /\ pln = Off
    /\ nrm = Off
    /\ rty = Off
    /\ wfl = Off

NextCompat ==
    \/ CreateReturns
    \/ CreateRaises
    \/ CreateRaisesTypeError

SpecCompat == InitCompat /\ [][NextCompat]_vars


\* ---- one workflow, step by step (main.py _workflow, lines 367-598) ----

\* A text is the sequence of its characters.  The texts below are the
\* literals of the source and the steps and commands of the runs followed.

\* str.lower() on the letters that occur
Upper ==
    <<"A", "B", "C", "D", "E", "F", "G", "H", "I", "J", "K", "L", "M",
      "N", "O", "P", "Q", "R", "S", "T", "U", "V", "W", "X", "Y", "Z">>
LowerChar(c) ==
    LET LowerCase ==
            <<"a", "b", "c", "d", "e", "f", "g", "h", "i", "j", "k", "l", "m",
              "n", "o", "p", "q", "r", "s", "t", "u", "v", "w", "x", "y", "z">>
    IN  IF \E i \in 1..Len(Upper) : Upper[i] = c
        THEN LowerCase[CHOOSE i \in 1..Len(Upper) : Upper[i] = c]
        ELSE c
Lower(s) == [i \in 1..Len(s) |-> LowerChar(s[i])]

\* needle in s
Infix(needle, s) ==
    \E i \in 1..(Len(s) - Len(needle) + 1) :
        SubSeq(s, i, i + Len(needle) - 1) = needle

\* the substrings and commands of fake mode, api_client.py lines 391-401
PrintHello == <<"p", "r", "i", "n", "t", " ", "h", "e", "l", "l", "o">>
PrintCompletion ==
    <<"p", "r", "i", "n", "t", " ", "c", "o", "m", "p", "l", "e", "t", "i",
    "o", "n">>
PrintDone == <<"p", "r", "i", "n", "t", " ", "d", "o", "n", "e">>
CauseFailure ==
    <<"c", "a", "u", "s", "e", " ", "f", "a", "i", "l", "u", "r", "e">>
Remediate == <<"r", "e", "m", "e", "d", "i", "a", "t", "e">>
EchoHello == <<"e", "c", "h", "o", " ", "h", "e", "l", "l", "o">>
EchoDone == <<"e", "c", "h", "o", " ", "d", "o", "n", "e">>
BashExit1 ==
    <<"b", "a", "s", "h", " ", "-", "l", "c", " ", "'", "e", "x", "i", "t",
    " ", "1", "'">>
EchoRemediate ==
    <<"e", "c", "h", "o", " ", "r", "e", "m", "e", "d", "i", "a", "t", "e">>
EchoNoop == <<"e", "c", "h", "o", " ", "n", "o", "o", "p">>

\* the literals of _normalize_command_for_os, main.py lines 139-144
GetChildItem ==
    <<"g", "e", "t", "-", "c", "h", "i", "l", "d", "i", "t", "e", "m">>
Gci == <<"g", "c", "i">>
Dir == <<"d", "i", "r">>
LsLa == <<"l", "s", " ", "-", "l", "a">>
Ls == <<"l", "s">>
GetChildItemForce ==
    <<"G", "e", "t", "-", "C", "h", "i", "l", "d", "I", "t", "e", "m", " ",
    "-", "F", "o", "r", "c", "e">>

\* main.py lines 421-427
OpenTerminal ==
    <<"o", "p", "e", "n", " ", "-", "a", " ", "T", "e", "r", "m", "i", "n",
    "a", "l">>
Powershell == <<"p", "o", "w", "e", "r", "s", "h", "e", "l", "l">>
forbidden_prefixes ==
    <<OpenTerminal,
      <<"c", "m", "d", " ">>,
      <<"c", "m", "d", ".", "e", "x", "e">>,
      <<"s", "t", "a", "r", "t", " ">>,
      Powershell>>

\* the steps of the plans followed, and the plans a planner answers with
\* (run_planner never returns an empty plan: api_client.py lines 291-293)
WorkflowPlans == {<<PrintHello>>, <<EchoHello, CauseFailure>>, <<CauseFailure>>}

\* the goals sent
WorkflowGoals == {PrintHello, CauseFailure}

\* the commands an upstream translator answers with
Translations ==
    {EchoHello, OpenTerminal,
     <<"o", "p", "e", "n", " ", "-", "a", " ", "t", "e", "r", "m", "i", "n",
       "a", "l">>,
     <<"C", "M", "D", " ", "x">>,
     Powershell, Dir, Ls}

\* run_executor raised
Raised == <<"raised">>

\* run_executor in fake mode, api_client.py lines 389-401
FakeCommand(sub_task) ==
    LET task == Lower(Strip(sub_task))
    IN  IF Infix(PrintHello, task) THEN EchoHello
        ELSE IF Infix(PrintCompletion, task) \/ Infix(PrintDone, task) THEN EchoDone
        ELSE IF Infix(CauseFailure, task) THEN BashExit1
        ELSE IF Infix(Remediate, task) THEN EchoRemediate
        ELSE EchoNoop

\* _normalize_command_for_os, main.py lines 120-148
_normalize_command_for_os(command, sys_name) ==
    LET lower == Lower(Strip(command))
    IN  IF sys_name # "windows"
        THEN IF \/ StartsWith(lower, GetChildItem)
                \/ StartsWith(lower, Gci)
                \/ StartsWith(lower, Dir)
             THEN LsLa ELSE command
        ELSE IF StartsWith(lower, Ls) THEN GetChildItemForce ELSE command

\* any(command.lower().startswith(pfx) for pfx in forbidden_prefixes),
\* main.py line 428
Forbidden(command) ==
    \E i \in 1..Len(forbidden_prefixes) :
        StartsWith(Lower(command), forbidden_prefixes[i])

\* what run_executor(sub_task=step) returns: lines 408-412
Answers(w) == IF w.fake THEN {FakeCommand(w.step)} ELSE Translations

\* what sandbox.execute_command does when the workflow task calls it
\* (main.py line 503, sandbox.py line 139): see SandboxCall
execute_command(command) ==
    IF SandboxCall = "failed"
    THEN {[raised |-> TRUE, exit_code |-> 0]}
    ELSE {[raised |-> FALSE, exit_code |-> c] : c \in ExitCodes}

\* an event as emit_json gets it
WorkflowEvent(type) ==
    [type |-> type, plan |-> <<>>, step |-> <<>>, command |-> <<>>,
     exit_code |-> 0, category |-> ""]
ErrorDetected(category, failed_step) ==
    [WorkflowEvent("error_detected") EXCEPT !.category = category,
                                            !.step = failed_step]

\* a call of api_client: the function, its argument, whether it reached
\* _retry(_call), the request to the upstream service, and whether it raised
ApiCall(fn, arg, upstream, raised) ==
    [fn |-> fn, arg |-> arg, upstream |-> upstream, raised |-> raised]

\* _workflow at its first call of run_planner, lines 368-378
WorkflowOf(fake, sys_name, goal) ==
    [pc |-> "planning", fake |-> fake, sys_name |-> sys_name, goal |-> goal,
     plan |-> <<>>, step_index |-> 0, step |-> <<>>, command |-> <<>>,
     norm_command |-> <<>>, history |-> <<>>, events |-> <<>>,
     calls |-> <<>>, passed |-> <<>>, replans |-> 0]

\* run_planner returns p: lines 372-378 and 391-398
PlanGenerated(p) ==
    /\ wfl.pc = "planning"
    /\ wfl' = [wfl EXCEPT
           !.pc = "loop", !.plan = p, !.step_index = 0,
           !.calls = Append(@, ApiCall("run_planner", wfl.goal, TRUE, FALSE)),
           !.events = Append(@, [WorkflowEvent("plan_generated") EXCEPT !.plan = p])]
    /\ UNCHANGED <<core, sbx, pln, nrm, rty, cpt>>

\* run_planner raises: lines 379-389
PlanningFailed ==
    /\ wfl.pc = "planning"
    /\ wfl' = [wfl EXCEPT
           !.pc = "done",
           !.calls = Append(@, ApiCall("run_planner", wfl.goal, TRUE, TRUE)),
           !.events = Append(@, ErrorDetected("planner", <<"planning">>))]
    /\ UNCHANGED <<core, sbx, pln, nrm, rty, cpt>>

\* the loop test of line 402: lines 403-417 up to run_executor, or lines
\* 592-598
LoopTop ==
    /\ wfl.pc = "loop"
    /\ wfl' = IF wfl.step_index < Len(wfl.plan)
              THEN [wfl EXCEPT !.pc = "translating",
                               !.step = wfl.plan[wfl.step_index + 1]]
              ELSE [wfl EXCEPT !.pc = "done",
                               !.events = Append(@, WorkflowEvent("workflow_complete"))]
    /\ UNCHANGED <<core, sbx, pln, nrm, rty, cpt>>

\* run_executor returns c and c passes the test of line 428: lines
\* 418-437 and 492-497
StepExecuting(c) ==
    /\ wfl.pc = "translating"
    /\ c \in Answers(wfl)
    /\ ~Forbidden(c)
    /\ LET norm == _normalize_command_for_os(c, wfl.sys_name)
       IN  wfl' = [wfl EXCEPT
               !.pc = "executing", !.command = c, !.norm_command = norm,
               !.calls = Append(@, ApiCall("run_executor", wfl.step, ~wfl.fake, FALSE)),
               !.events = Append(@, [WorkflowEvent("step_executing") EXCEPT
                                        !.step = wfl.step, !.command = norm])]
    /\ UNCHANGED <<core, sbx, pln, nrm, rty, cpt>>

\* after its first re-plan a failed translation ends the workflow
ExecutorErrorCapped(c) ==
    /\ wfl.pc = "translating"
    /\ wfl.replans < MaxWorkflowReplans
    /\ \/ c = Raised /\ ~wfl.fake
       \/ c \in Answers(wfl) /\ Forbidden(c)
    /\ wfl' = [wfl EXCEPT
           !.pc = IF wfl.replans >= 1 THEN "done" ELSE "replanning",
           !.replans = @ + 1,
           !.calls = Append(@, ApiCall("run_executor", wfl.step, ~wfl.fake, c = Raised)),
           !.events = @ \o <<ErrorDetected("executor", wfl.step),
                             WorkflowEvent("re_planning")>>]
    /\ UNCHANGED <<core, sbx, pln, nrm, rty, cpt>>

\* run_executor raises, or returns a command that line 428 refuses:
\* lines 439-456
ExecutorError(c) ==
    /\ wfl.pc = "translating"
    /\ wfl.replans < MaxWorkflowReplans
    /\ \/ c = Raised /\ ~wfl.fake
       \/ c \in Answers(wfl) /\ Forbidden(c)
    /\ wfl' = [wfl EXCEPT
           !.pc = "replanning", !.replans = @ + 1,
           !.calls = Append(@, ApiCall("run_executor", wfl.step, ~wfl.fake, c = Raised)),
           !.events = @ \o <<ErrorDetected("executor", wfl.step),
                             WorkflowEvent("re_planning")>>]
    /\ UNCHANGED <<core, sbx, pln, nrm, rty, cpt>>

\* the new plan arrives and the old one stays in use
ReplannedKeepsPlan(w, p) == [w EXCEPT !.step_index = 0]

\* plan_list = ...; step_index = 0: lines 463-468 and 560-565
Replanned(w, p) == [w EXCEPT !.plan = p, !.step_index = 0]

\* the re-plan returns p: lines 457-474 and 552-571
NewPlan(p) ==
    /\ wfl.pc = "replanning"
    /\ wfl' = [Replanned(wfl, p) EXCEPT
           !.pc = "loop",
           !.calls = Append(@, ApiCall("run_planner", wfl.goal, TRUE, FALSE)),
           !.events = Append(@, [WorkflowEvent("plan_generated") EXCEPT !.plan = p])]
    /\ UNCHANGED <<core, sbx, pln, nrm, rty, cpt>>

\* the re-plan raises: lines 475-490 and 572-587
RePlanningFailed ==
    /\ wfl.pc = "replanning"
    /\ wfl' = [wfl EXCEPT
           !.pc = "done",
           !.calls = Append(@, ApiCall("run_planner", wfl.goal, TRUE, TRUE)),
           !.events = Append(@, ErrorDetected("planner", wfl.step))]
    /\ UNCHANGED <<core, sbx, pln, nrm, rty, cpt>>

\* sandbox.execute_command(norm_command) and what follows it: lines
\* 499-590.  An exception of the call leaves the task (no except clause of
\* _workflow but that for CancelledError).
RunStep ==
    /\ wfl.pc = "executing"
    /\ \E out \in execute_command(wfl.norm_command) :
           LET called == [wfl EXCEPT !.passed = Append(@, wfl.norm_command)]
               recorded == [called EXCEPT
                   !.events = Append(@, [WorkflowEvent("step_result") EXCEPT
                                            !.exit_code = out.exit_code]),
                   !.history = Append(@, [step |-> wfl.step,
                                          command |-> wfl.norm_command,
                                          exit_code |-> out.exit_code])]
           IN  IF out.raised
               THEN wfl' = [called EXCEPT !.pc = "failed"]
               ELSE IF out.exit_code # 0
               THEN /\ wfl.replans < MaxWorkflowReplans
                    /\ wfl' = [recorded EXCEPT
                           !.pc = "replanning", !.replans = @ + 1,
                           !.events = @ \o <<ErrorDetected("sandbox", wfl.step),
                                             WorkflowEvent("re_planning")>>]
               ELSE wfl' = [recorded EXCEPT !.pc = "loop", !.step_index = @ + 1]
    /\ UNCHANGED <<core, sbx, pln, nrm, rty, cpt>>

InitWorkflow ==
    /\ InitCore
    /\ wfl \in {WorkflowOf(fake, sys_name, goal) :
                    fake \in BOOLEAN, sys_name \in {"linux", "windows"},
                    goal \in WorkflowGoals}
    /\ sbx = Off
    /\ pln = Off
    /\ nrm = Off
    /\ rty = Off
    /\ cpt = Off

NextWorkflow ==
    \/ \E p \in WorkflowPlans : PlanGenerated(p)
    \/ PlanningFailed
    \/ LoopTop
    \/ \E c \in Translations \cup {FakeCommand(s) : s \in {PrintHello, EchoHello, CauseFailure}} :
           StepExecuting(c)
    \/ \E c \in Translations \cup {Raised} : ExecutorError(c)
    \/ \E p \in WorkflowPlans : NewPlan(p)
    \/ RePlanningFailed
    \/ RunStep

SpecWorkflow == InitWorkflow /\ [][NextWorkflow]_vars

\* the event loop runs every callback that is ready, and the calls of the
\* planner, the translator and the sandbox return or raise
SpecWorkflowFair == SpecWorkflow /\ WF_vars(NextWorkflow)


\* ---- properties ----

Reqs == 1..Len(req)

\* the events of request r (of its handler and of its workflow task), in
\* the order of their emission
EventsOf(r) == SelectSeq(trace[req[r].sid], LAMBDA e : e.wf = r)

IsError(e, category) == e.type = "error_detected" /\ e.error[1] = category

\* the workflow task of r has run its first callback and has not finished
Live(r) == req[r].tpc \notin TaskEnded \cup {"none", "created"}

\* C1: for every client id, at most one workflow task that has started
\* running has not yet finished.
C1_AtMostOneWorkflow ==
    \A c \in Clients : Cardinality({r \in Reqs : req[r].sid = c /\ Live(r)}) <= 1

\* C2: when execute_goal r found the workflow prev running and started its
\* own workflow, no event of prev follows an event of r in the client's
\* trace.
C2_CancellationPrecedence ==
    \A r \in Reqs :
        (req[r].prev # 0 /\ req[r].verdict = "accepted") =>
            LET t == trace[req[r].sid]
            IN  \A i, j \in 1..Len(t) :
                    (i < j /\ t[i].wf = r) => t[j].wf # req[r].prev

C2_Witness ==
    \E r \in Reqs :
        /\ req[r].prev # 0
        /\ EventsOf(r) # <<>>
        /\ EventsOf(r)[1].type = "plan_generated"
        /\ EventsOf(req[r].prev) # <<>>
        /\ IsError(EventsOf(req[r].prev)[Len(EventsOf(req[r].prev))], "cancelled")

StepEvents(r) ==
    SelectSeq(EventsOf(r), LAMBDA e : e.type \in {"step_executing", "step_result"})

C4_RePlanningOrder ==
    \A r \in Reqs :
        LET ev == EventsOf(r)
        IN  /\ \A i \in 1..Len(ev) :
                   ev[i].type = "re_planning" =>
                       /\ i > 1
                       /\ IsError(ev[i - 1], "executor") \/ IsError(ev[i - 1], "sandbox")
            /\ \A i, j \in 1..Len(ev) :
                   (i < j /\ ev[i].type = "plan_generated"
                          /\ ev[j].type = "plan_generated") =>
                       \E k \in (i + 1)..(j - 1) : ev[k].type = "re_planning"

C4_Witness ==
    \E r \in Reqs :
        LET ev == EventsOf(r)
        IN  /\ Len(ev) >= 4
            /\ ev[1].type = "plan_generated"
            /\ IsError(ev[2], "executor")
            /\ ev[3].type = "re_planning"
            /\ ev[4].type = "plan_generated"

\* the events that end a workflow: workflow_complete and the error_detected
\* of the terminal categories planner and cancelled
Terminal(e) ==
    \/ e.type = "workflow_complete"
    \/ IsError(e, "planner")
    \/ IsError(e, "cancelled")

\* C5: a workflow emits at most one terminal event and no event after it.
C5_OneTerminalEvent ==
    \A r \in Reqs :
        LET ev == EventsOf(r)
        IN  \A i \in 1..Len(ev) : Terminal(ev[i]) => i = Len(ev)

\* the step runs the rate gate of request r
GateRuns(r) ==
    /\ r \in 1..Len(req')
    /\ req'[r].verdict # "pending"
    /\ r > Len(req) \/ req[r].verdict = "pending"

\* C6: a request that reaches the rate gate less than the minimum interval
\* after the client's last accepted request is rejected with exactly one
\* error_detected[rate_limit] with failed_step rate_limit, starts no
\* workflow and leaves the timestamp unchanged; any other request is not
\* rate limited; and two requests of one client that passed the gate are
\* at least the interval apart.
C6_RateLimit ==
    /\ [][\A r \in 1..MaxReq :
            GateRuns(r) =>
                LET sid == req'[r].sid
                    t == trace'[sid]
                IN  IF now - last[sid] < MIN_EXECUTE_GOAL_INTERVAL_SEC
                    THEN /\ req'[r].verdict = "rate_limited"
                         /\ req'[r].tpc = "none"
                         /\ running' = running
                         /\ last' = last
                         /\ Len(t) = Len(trace[sid]) + 1
                         /\ t[Len(t)].wf = r
                         /\ IsError(t[Len(t)], "rate_limit")
                         /\ t[Len(t)].failed_step = "rate_limit"
                    ELSE /\ req'[r].verdict # "rate_limited"
                         /\ req'[r].at = now
                         /\ last'[sid] = now]_vars
    /\ [](\A r \in Reqs :
            req[r].verdict = "rate_limited" =>
                req[r].tpc = "none" /\ Len(EventsOf(r)) = 1)
    /\ [](\A r1, r2 \in Reqs :
            (r1 < r2 /\ req[r1].sid = req[r2].sid
                     /\ req[r1].at # 0 /\ req[r2].at # 0) =>
                req[r2].at - req[r1].at >= MIN_EXECUTE_GOAL_INTERVAL_SEC)

C6_Witness ==
    \E r1, r2 \in Reqs :
        /\ r1 < r2
        /\ req[r1].sid = req[r2].sid
        /\ req[r1].verdict = "accepted"
        /\ req[r2].verdict = "rate_limited"
        /\ now > req[r1].at

\* C7: a request rejected by the rate limit has not cancelled the workflow
\* of the request before it.
C7_RejectedDoesNotCancel ==
    \A r \in Reqs : req[r].verdict = "rate_limited" => req[r].prev = 0

\* the data the validation is to reject: no payload {goal: string}, or a
\* trimmed goal that is empty or longer than MAX_GOAL_LEN
Malformed(d) ==
    \/ d.shape # "goal"
    \/ Len(Strip(d.goal)) = 0
    \/ Len(Strip(d.goal)) > MAX_GOAL_LEN

\* C8: a request that passed the rate gate with malformed data has emitted
\* exactly one event, error_detected[validation] with failed_step validate,
\* and started no workflow; with well-formed data (a trimmed goal of 1 to
\* MAX_GOAL_LEN characters) it is accepted.
C8_ValidationRejects ==
    \A r \in Reqs :
        req[r].verdict \notin {"pending", "rate_limited"} =>
            IF Malformed(req[r].data)
            THEN /\ req[r].tpc = "none"
                 /\ Len(EventsOf(r)) = 1
                 /\ IsError(EventsOf(r)[1], "validation")
                 /\ EventsOf(r)[1].failed_step = "validate"
            ELSE req[r].verdict = "accepted"

\* C9: once the disconnect of a client has been handled, each of its
\* workflow tasks has finished or has its cancellation requested or
\* delivered.
C9_DisconnectCancels ==
    \A r \in Reqs :
        (conn[req[r].sid] = "down" /\ req[r].tpc \notin TaskEnded \cup {"none"}) =>
            req[r].cancelReq \/ req[r].tpc = "emit_cancelled"

\* C10: a workflow that ended as cancelled has emitted exactly one
\* error_detected[cancelled] with failed_step cancel, as its last event.
C10_CancelledEmitsOnce ==
    \A r \in Reqs :
        req[r].tpc = "cancelled" =>
            LET ev == EventsOf(r)
            IN  /\ ev # <<>>
                /\ IsError(ev[Len(ev)], "cancelled")
                /\ ev[Len(ev)].failed_step = "cancel"
                /\ \A i \in 1..(Len(ev) - 1) : ~IsError(ev[i], "cancelled")

\* ---- properties of the sandbox ----

\* _sanitize_command(sbx.cmd) has returned
Sanitized == sbx.pc = "returned" /\ sbx.entry = "_sanitize_command"

\* C11: the sanitizer returns a decision, accept or reject with a reason,
\* for every command and every environment, and the decision is reject for
\* every command that contains a newline, a carriage return or a NUL.
C11_SanitizerRejectsNewlines ==
    Sanitized =>
        /\ sbx.result.stderr[1] \in {"Accepted", "Rejected"}
        /\ (sbx.result.stderr[1] = "Accepted") = (sbx.result.stderr[2] = "")
        /\ Contains(sbx.cmd, {"nl", "cr", "nul"}) => sbx.result.stderr[1] = "Rejected"

C11_Witness ==
    /\ Sanitized
    /\ Contains(sbx.cmd, {"nul"})
    /\ ~sbx.env.strict
    /\ sbx.env.allow = {}
    /\ sbx.result.stderr = <<"Rejected", "newline">>

\* a function of the executor was called (and not the sanitizer alone)
Executed == sbx.pc \notin {"off", "idle"} /\ sbx.entry # "_sanitize_command"

\* C12: whichever function of the executor is called, a subprocess is
\* spawned only with the very string the sanitizer accepted as its command,
\* and when the sanitizer rejects that string nothing is spawned and the
\* result is stdout "", stderr "Rejected: <reason>", exit_code -2.
C12_SanitizerGatesExecutor ==
    Executed =>
        IF sbx.pc = "raised" THEN sbx.spawned = <<>>
        ELSE LET d == _sanitize_command(sbx.shell, sbx.env)
             IN  IF d.ok
                 THEN \A i \in 1..Len(sbx.spawned) :
                          sbx.spawned[i][Len(sbx.spawned[i])] = sbx.shell
                 ELSE /\ sbx.spawned = <<>>
                      /\ sbx.pc = "returned"
                      /\ sbx.result = Result(<<"Rejected", d.reason>>, -2)

C12_Witness ==
    /\ Executed
    /\ sbx.entry = "execute_command"
    /\ sbx.spawned = <<>>
    /\ sbx.result = Result(<<"Rejected", "newline">>, -2)

\* C13: execute_command with an empty or whitespace-only command spawns no
\* subprocess and returns exit_code -2 with a stderr that starts with
\* "Rejected".
C13_EmptyCommandRejected ==
    (Executed /\ sbx.entry = "execute_command" /\ sbx.pc # "raised"
              /\ Strip(sbx.cmd) = <<>>) =>
        /\ sbx.spawned = <<>>
        /\ sbx.pc = "returned"
        /\ sbx.result.exit_code = -2
        /\ sbx.result.stderr[1] = "Rejected"

\* C14: with an allowlist configured, execute_command returns exit_code -2
\* for a command whose first shell token is not in the allowlist, and does
\* not return -2 for a command the sanitizer has nothing against and whose
\* first shell token is in the allowlist.
C14_AllowlistOnFirstToken ==
    (Executed /\ sbx.entry = "execute_command" /\ sbx.pc = "returned"
              /\ sbx.env.allow # {}) =>
        IF FirstToken(sbx.cmd) \notin sbx.env.allow
        THEN sbx.result.exit_code = -2
        ELSE _sanitize_command(sbx.cmd, sbx.env).ok => sbx.result.exit_code # -2

\* bash -lc <cmd>
LoginShellArgv(command) == <<"bash", "-lc", command>>

\* C15: the first spawn of an accepted command is sudo -u <SANDBOX_USER>
\* bash -lc <cmd> when the sudo wrapper is found and SANDBOX_FORCE_LOCAL is
\* not set, and bash -lc <cmd> otherwise; a spawn after a failed sudo spawn
\* is bash -lc <cmd>.
C15_SpawnedArgv ==
    Executed =>
        \A i \in 1..Len(sbx.spawned) :
            sbx.spawned[i] =
                IF i = 1 /\ sbx.sudo /\ ~sbx.env.force_local
                THEN SudoArgv(sbx.env.user, sbx.shell)
                ELSE LoginShellArgv(sbx.shell)

\* ---- properties of the planner client ----

\* run_planner returned on a JSON object {"plan": [s1, ..., sn]}, n >= 1
PlanParsed ==
    pln.pc = "returned" /\ pln.resp.kind = "json_plan" /\ pln.resp.items # <<>>

\* C16 as stated: when every si is a non-empty string, run_planner returns
\* [trim(s1), ..., trim(sn)].
C16_PlanUnchangedModuloTrim ==
    (PlanParsed /\ \A i \in 1..Len(pln.resp.items) : pln.resp.items[i] # <<>>) =>
        pln.steps = [i \in 1..Len(pln.resp.items) |-> Strip(pln.resp.items[i])]

\* C16, amended: when every si has a character that is not whitespace,
\* run_planner returns [trim(s1), ..., trim(sn)]: same length, same order,
\* each element trimmed.
C16_PlanOfNonBlankSteps ==
    (PlanParsed /\ \A i \in 1..Len(pln.resp.items) :
                       Strip(pln.resp.items[i]) # <<>>) =>
        pln.steps = [i \in 1..Len(pln.resp.items) |-> Strip(pln.resp.items[i])]

C16_Witness ==
    /\ PlanParsed
    /\ pln.resp.items = << <<" ", "a">>, <<"a", " ">> >>
    /\ pln.steps = << <<"a">>, <<"a">> >>

\* ---- properties of the translator client ----

\* C17: the command run_executor returns from its upstream path contains
\* no newline, carriage return or tab and no two consecutive spaces, and
\* normalizing it again leaves it as it is.
C17_NormalizeIdempotent ==
    /\ nrm.pc \in {"once", "twice"} =>
           /\ ~Contains(nrm.once, {"nl", "cr", "tab"})
           /\ \A i \in 1..(Len(nrm.once) - 1) :
                  ~(nrm.once[i] = " " /\ nrm.once[i + 1] = " ")
    /\ nrm.pc = "twice" => nrm.twice = nrm.once

C17_Witness ==
    /\ nrm.pc = "twice"
    /\ nrm.command = <<>>
    /\ nrm.text = <<"a", "nl", "tab", "a">>
    /\ nrm.twice = <<"a", " ", "a">>

\* ---- properties of the retries ----

Transient(e) == e.kind = "APIError" /\ e.status \in {429, 500, 502, 503, 504}

\* C18: an error of the upstream call that is not a transient upstream
\* error (HTTP 429, 500, 502, 503, 504) is the last call of _retry: it is
\* raised to the caller with no backoff and no further attempt.
C18_RetryOnlyTransient ==
    \A k \in 1..Len(rty.calls) :
        (rty.calls[k].kind # "ok" /\ ~Transient(rty.calls[k])) =>
            /\ k = Len(rty.calls)
            /\ rty.pc = "raised"
            /\ Len(rty.sleeps) = k - 1

\* ---- properties of the workflow boundary ----

\* C19: no exception leaves the workflow boundary: no workflow task ends
\* with an exception other than its cancellation, and no invocation of the
\* execute_goal handler raises.
C19_NoExceptionEscapes ==
    \A r \in Reqs : req[r].tpc # "failed" /\ req[r].hpc # "raised"

\* the categories of error_detected
Categories == {"validation", "rate_limit", "planner", "executor", "sandbox", "cancelled"}

\* the error_detected events of request r of the requests rq in the traces tr
ErrorsOf(tr, rq, r) ==
    SelectSeq(tr[rq[r].sid], LAMBDA e : e.wf = r /\ e.type = "error_detected")

\* the category of the failure that the step brings to request r, "none"
\* when it brings none: the verdict of the handler, the cancellation that
\* reaches the task, the planner or translator call that raised, and the
\* sandbox call that failed
FailureOf(r) ==
    IF r > Len(req) \/ req[r].verdict = "pending"
    THEN IF req'[r].verdict = "rate_limited" THEN "rate_limit"
         ELSE IF req'[r].verdict \in {"invalid", "type_error"} THEN "validation"
         ELSE "none"
    ELSE IF req[r].cancelReq /\ ~req'[r].cancelReq THEN "cancelled"
    ELSE IF req'[r].tpc = req[r].tpc THEN "none"
    ELSE IF req'[r].tpc \in {"emit_plan_err", "emit_replan_err"} THEN "planner"
    ELSE IF req'[r].tpc = "emit_exec_err" THEN "executor"
    ELSE IF req'[r].tpc = "failed" THEN "sandbox"
    ELSE "none"

\* C20: a step that brings a failure to a request emits exactly one
\* error_detected for it, whose error starts with the category of that
\* failure; a step that brings none emits no error_detected; and the
\* category of every error_detected is one of the six.
C20_OneErrorPerFailure ==
    /\ [][\A r \in 1..Len(req') :
            LET before == IF r > Len(req) THEN <<>> ELSE ErrorsOf(trace, req, r)
                after == ErrorsOf(trace', req', r)
            IN  IF FailureOf(r) = "none" THEN after = before
                ELSE /\ Len(after) = Len(before) + 1
                     /\ SubSeq(after, 1, Len(before)) = before
                     /\ IsError(after[Len(after)], FailureOf(r))]_vars
    /\ [](\A c \in Clients : \A i \in 1..Len(trace[c]) :
              trace[c][i].type = "error_detected" =>
                  trace[c][i].error[1] \in Categories)

\* ---- the workflow followed step by step ----

\* the workflow has ended
WorkflowEnded == wfl.pc \in {"done", "failed"}

\* the index of the last event of the given type, 0 when there is none
LastIndex(type) ==
    LET at == {i \in 1..Len(wfl.events) : wfl.events[i].type = type}
    IN  IF at = {} THEN 0 ELSE CHOOSE i \in at : \A j \in at : j <= i

\* the i-th event of the offline run of the goal "print hello"
OfflineHelloEvent(e, i) ==
    CASE i = 1 -> e.type = "plan_generated" /\ Len(e.plan) = 1
      [] i = 2 -> e.type = "step_executing" /\ e.command = EchoHello
      [] i = 3 -> e.type = "step_result" /\ e.exit_code = 0
      [] i = 4 -> e.type = "workflow_complete"
      [] OTHER -> FALSE

\* C21: in offline mode a workflow for the goal "print hello" makes no
\* upstream call, and its events are, in this order, plan_generated with a
\* plan of one step, step_executing with the command "echo hello",
\* step_result with exit code 0 and workflow_complete: every event so far
\* is the next of these four, and a workflow that has ended emitted all four.
C21_OfflinePrintHello ==
    (wfl.fake /\ wfl.goal = PrintHello) =>
        /\ \A i \in 1..Len(wfl.calls) : ~wfl.calls[i].upstream
        /\ \A i \in 1..Len(wfl.events) : OfflineHelloEvent(wfl.events[i], i)
        /\ WorkflowEnded => Len(wfl.events) = 4

\* an external call did not return
ExternalCallRaised == \E i \in 1..Len(wfl.calls) : wfl.calls[i].raised

WorkflowCompleted ==
    /\ wfl.events # <<>>
    /\ wfl.events[Len(wfl.events)].type = "workflow_complete"

\* C22: a workflow that is not cancelled, whose external calls all return
\* and of which only finitely many step attempts fail (here: fewer than
\* MaxWorkflowReplans) eventually emits workflow_complete.
C22_EventuallyComplete ==
    <>(WorkflowCompleted \/ ExternalCallRaised \/ wfl.replans = MaxWorkflowReplans)

\* C23: in the trace of one request a re_planning comes directly after an
\* error_detected of category executor or sandbox, and an error_detected
\* of category validation, rate_limit or planner is the last event of its
\* request.
C23_OnlyStepErrorsRePlan ==
    \A r \in Reqs :
        LET ev == EventsOf(r)
        IN  \A i \in 1..Len(ev) :
                /\ ev[i].type = "re_planning" =>
                       /\ i > 1
                       /\ IsError(ev[i - 1], "executor") \/ IsError(ev[i - 1], "sandbox")
                /\ (\/ IsError(ev[i], "validation")
                    \/ IsError(ev[i], "rate_limit")
                    \/ IsError(ev[i], "planner")) => i = Len(ev)

\* C24: once the sandbox call of a step_executing is over, the event after
\* that step_executing is a step_result, the command passed to the sandbox
\* is the one announced, and the history holds a record with that command
\* for each step_executing.
C24_StepResultFollows ==
    wfl.pc # "executing" =>
        LET at == {i \in 1..Len(wfl.events) : wfl.events[i].type = "step_executing"}
        IN  /\ \A i \in at :
                   /\ i < Len(wfl.events)
                   /\ wfl.events[i + 1].type = "step_result"
                   /\ \E h \in 1..Len(wfl.history) :
                          wfl.history[h].command = wfl.events[i].command
            /\ Cardinality(at) = Len(wfl.history)
            /\ Cardinality(at) = Len(wfl.passed)

C27_NonZeroExitRePlans ==
    LET e == wfl.events
        x == LastIndex("step_executing")
    IN  (/\ wfl.pc # "executing"
         /\ x > 0
         /\ LastIndex("plan_generated") < x
         /\ ~(x < Len(e) /\ e[x + 1].type = "step_result" /\ e[x + 1].exit_code = 0)) =>
            /\ Len(e) >= x + 3
            /\ e[x + 1].type = "step_result"
            /\ e[x + 2].type = "error_detected" /\ e[x + 2].category = "sandbox"
            /\ e[x + 3].type = "re_planning"
            /\ wfl.plan[wfl.step_index + 1] = e[x].step

\* the direct-command prefixes
DirectPrefixes ==
    {<<"i", "f">>, <<"w", "h", "i", "l", "e">>, <<"c", "u", "r", "l">>,
     <<"s", "u", "d", "o">>, <<"r", "m">>, <<"w", "g", "e", "t">>,
     <<"a", "p", "t">>, <<"a", "p", "t", "-", "g", "e", "t">>,
     <<"d", "n", "f">>, <<"y", "u", "m">>, <<"b", "r", "e", "w">>,
     <<"b", "a", "s", "h">>, <<"e", "c", "h", "o">>, <<"c", "a", "t">>,
     <<"l", "s">>, <<"c", "d">>, <<"m", "k", "d", "i", "r">>,
     <<"t", "o", "u", "c", "h">>}

DirectStep(step) == \E prefix \in DirectPrefixes : StartsWith(step, prefix)

\* C28: the translator is not called for a step that begins with a
\* direct-command prefix, and the command of such a step is the step
\* itself; for every other step that is executed the translator was called.
C28_DirectCommandsVerbatim ==
    /\ \A i \in 1..Len(wfl.calls) :
           wfl.calls[i].fn = "run_executor" => ~DirectStep(wfl.calls[i].arg)
    /\ wfl.pc = "executing" =>
           IF DirectStep(wfl.step)
           THEN wfl.command = wfl.step
           ELSE /\ wfl.calls[Len(wfl.calls)].fn = "run_executor"
                /\ wfl.calls[Len(wfl.calls)].arg = wfl.step

\* command begins with one of the forbidden prefixes, letter case ignored
ForbiddenIgnoringCase(command) ==
    \E i \in 1..Len(forbidden_prefixes) :
        StartsWith(Lower(command), Lower(forbidden_prefixes[i]))

\* C29: no command that begins, letter case ignored, with a forbidden
\* prefix is passed to the sandbox.
C29_ForbiddenNeverRuns ==
    \A i \in 1..Len(wfl.passed) : ~ForbiddenIgnoringCase(wfl.passed[i])

\* C30: a workflow with a pending cancellation does not go on to the
\* sandbox call (the step that ends its task "failed"): the cancellation
\* is delivered first.
C30_NoCommandAfterCancel ==
    [][\A r \in Reqs :
           (req[r].cancelReq /\ req[r].tpc # "failed") => req'[r].tpc # "failed"]_vars

\* a workflow was cancelled between its step_executing and the sandbox call
C30_Witness ==
    \E r \in Reqs :
        LET ev == EventsOf(r)
        IN  \E i \in 1..(Len(ev) - 1) :
                /\ ev[i].type = "step_executing"
                /\ IsError(ev[i + 1], "cancelled")

\* ---- properties of the planner client, continued ----

\* no item or line of the response holds a character that is not whitespace
NoStepParsed == \A i \in 1..Len(pln.resp.items) : Strip(pln.resp.items[i]) = <<>>

\* C31: a plan run_planner returns has at least one step, every step is
\* non-empty and trimmed, and when the response holds no step the plan is
\* the one step "Analyze and begin: <goal>".
C31_PlanOfTrimmedSteps ==
    pln.pc = "returned" =>
        /\ Len(pln.steps) >= 1
        /\ \A i \in 1..Len(pln.steps) :
               pln.steps[i] # <<>> /\ Strip(pln.steps[i]) = pln.steps[i]
        /\ NoStepParsed => pln.steps = FallbackPlan(PlannerGoal)

Digits == {"0", "1", "2", "3", "4", "5", "6", "7", "8", "9"}

\* a stripped line without its leading "- ", "* " or "N. "
WithoutPrefix(raw) ==
    IF StartsWith(raw, <<"-", " ">>) \/ StartsWith(raw, <<"*", " ">>)
    THEN SubSeq(raw, 3, Len(raw))
    ELSE IF Len(raw) >= 3 /\ raw[1] \in Digits /\ raw[2] = "." /\ raw[3] = " "
    THEN SubSeq(raw, 4, Len(raw))
    ELSE raw

\* one step per non-blank line, in the order of the lines
RECURSIVE StepPerLine(_)
StepPerLine(lines) ==
    IF lines = <<>> THEN <<>>
    ELSE IF Strip(Head(lines)) = <<>> THEN StepPerLine(Tail(lines))
    ELSE <<WithoutPrefix(Strip(Head(lines)))>> \o StepPerLine(Tail(lines))

\* C37: for a text that is no JSON and has a non-blank line, run_planner
\* returns one step per non-blank line, in the order of the lines, each
\* line without its leading "- ", "* " or "N. ".
C37_StepPerLine ==
    (pln.pc = "returned" /\ pln.resp.kind = "text" /\ ~NoStepParsed) =>
        pln.steps = StepPerLine(pln.resp.items)

\* ---- the workflow followed step by step, continued ----

\* the re_planning events of the workflow
RePlannings == {i \in 1..Len(wfl.events) : wfl.events[i].type = "re_planning"}

\* every step attempt so far has failed and every planner call has returned
KeepsFailing ==
    /\ \A i \in 1..Len(wfl.events) : wfl.events[i].type # "step_executing"
    /\ \A i \in 1..Len(wfl.calls) :
           wfl.calls[i].fn = "run_planner" => ~wfl.calls[i].raised

\* C32: a workflow whose step attempts keep failing while the planner keeps
\* returning plans has not ended and has emitted no terminal event, and
\* each of its failed attempts has given one re_planning: their number is
\* limited by nothing but the length of the run.
C32_NoBoundOnRePlans ==
    KeepsFailing =>
        /\ ~WorkflowEnded
        /\ \A i \in 1..Len(wfl.events) :
               /\ wfl.events[i].type # "workflow_complete"
               /\ ~(wfl.events[i].type = "error_detected"
                    /\ wfl.events[i].category = "planner")
        /\ Cardinality(RePlannings) = wfl.replans

\* a run with as many re_planning events as the run is long enough for,
\* still going on
C32_Witness ==
    /\ KeepsFailing
    /\ Cardinality(RePlannings) = MaxWorkflowReplans
    /\ wfl.pc = "translating"

\* ---- properties of the retries, continued ----

\* _retry has returned or raised
RetryOver == rty.pc \in {"returned", "raised"}

\* C33: one _retry calls fn() at most RETRIES + 1 = 3 times, pauses for
\* the base backoff before the first retry and twice the previous pause
\* before each later one, returns when a call returns (the first that
\* does), raises the error of its last call otherwise, and comes to an end.
C33_RetryBounded ==
    /\ [](/\ Len(rty.calls) <= RETRIES + 1
          /\ Len(rty.sleeps) <= RETRIES
          /\ \A k \in 1..Len(rty.sleeps) :
                 rty.sleeps[k] = IF k = 1 THEN BACKOFF_QUARTERS
                                 ELSE 2 * rty.sleeps[k - 1]
          /\ \A k \in 1..(Len(rty.calls) - 1) : rty.calls[k].kind # "ok"
          /\ rty.pc = "returned" => rty.calls[Len(rty.calls)].kind = "ok"
          /\ rty.pc = "raised" => rty.raised = <<rty.calls[Len(rty.calls)]>>
          /\ rty.pc # "raised" => rty.raised = <<>>)
    /\ <>RetryOver

\* three calls, two pauses, and the error of the third call raised
C33_Witness ==
    /\ rty.pc = "raised"
    /\ Len(rty.calls) = RETRIES + 1
    /\ rty.sleeps = <<BACKOFF_QUARTERS, 2 * BACKOFF_QUARTERS>>
    /\ rty.raised = <<rty.calls[RETRIES + 1]>>

\* ---- properties of the server, continued ----

\* C34: the sandbox call is a suspension point of its workflow: the
\* callback that goes on from the emit of step_executing to the command
\* leaves the task waiting for the command, so that handlers of other
\* clients and steps of other workflows can run before the step_result.
C34_SandboxCallYields ==
    [][\A r \in Reqs :
           (/\ req[r].tpc = "emit_step_exec"
            /\ ~req[r].cancelReq
            /\ req'[r].tpc # "emit_step_exec") => req'[r].tpc \notin TaskEnded]_vars

\* the task of request r exists and has not finished
Unfinished(rq, r) == rq[r].tpc \notin TaskEnded \cup {"none"}

\* C35: the step of _on_shutdown leaves every unfinished workflow task
\* with a cancellation requested (or already being handled), and after it
\* a workflow task does nothing but handle its cancellation.
C35_ShutdownCancelsAll ==
    [][/\ (~shutdown /\ shutdown') =>
              \A r \in Reqs :
                  Unfinished(req', r) =>
                      req'[r].cancelReq \/ req'[r].tpc = "emit_cancelled"
       /\ shutdown =>
              \A r \in Reqs :
                  req'[r].tpc # req[r].tpc =>
                      req'[r].tpc \in {"emit_cancelled", "cancelled"}]_vars

\* the step changes something of client c: its connection, its rate-limit
\* timestamp, its registry entry, its trace, one of its requests or
\* workflow tasks, or it receives a new request of c
Touched(c) ==
    \/ conn'[c] # conn[c]
    \/ last'[c] # last[c]
    \/ running'[c] # running[c]
    \/ trace'[c] # trace[c]
    \/ \E r \in Reqs : req[r].sid = c /\ req'[r] # req[r]
    \/ Len(req') > Len(req) /\ req'[Len(req')].sid = c

\* C36: a step of a handler or of a workflow task changes the connection,
\* timestamp, registry entry, requests, tasks and trace of one client
\* only, and an event of a request is appended to the trace of the client
\* that sent the request.
C36_ClientsAreSeparate ==
    [][/\ \A a, b \in Clients : (Touched(a) /\ Touched(b)) => a = b
       /\ \A c \in Clients :
              \A i \in (Len(trace[c]) + 1)..Len(trace'[c]) :
                  trace'[c][i].wf # 0 => req'[trace'[c][i].wf].sid = c]_vars

\* both clients have a workflow that has announced its plan: the second
\* execute_goal was handled while the first client's workflow was running
C36_Witness ==
    /\ Len(req) = 2
    /\ req[1].sid # req[2].sid
    /\ req[1].tpc = "emit_plan" /\ ~req[1].cancelReq
    /\ req[2].tpc = "emit_plan"
    /\ running[req[1].sid] = 1
    /\ running[req[2].sid] = 2

\* C39: the registry entry of a client is empty or refers to a workflow
\* task that has not finished.
C39_RegistryRefersToUnfinished ==
    \A c \in Clients : running[c] # 0 => ~Done(running[c])

\* C38: a request that passes the rate gate and is rejected by the
\* validation sets the client's timestamp to its arrival time, and a
\* request of the same client that reaches the gate less than the minimum
\* interval after such a request is rejected with rate_limit, whatever its
\* data.
C38_RejectedStartsWindow ==
    [][\A r \in 1..MaxReq :
           GateRuns(r) =>
               LET sid == req'[r].sid
               IN  /\ req'[r].verdict = "invalid" =>
                          req'[r].at = now /\ last'[sid] = now
                   /\ (\E r1 \in Reqs :
                           /\ req[r1].sid = sid
                           /\ req[r1].verdict = "invalid"
                           /\ now - req[r1].at < MIN_EXECUTE_GOAL_INTERVAL_SEC) =>
                          /\ req'[r].verdict = "rate_limited"
                          /\ IsError(trace'[sid][Len(trace'[sid])], "rate_limit")]_vars

\* a well-formed request was rate limited in the window that a request
\* rejected by the validation had started
C38_Witness ==
    \E r1, r2 \in Reqs :
        /\ r1 < r2
        /\ req[r1].sid = req[r2].sid
        /\ req[r1].verdict = "invalid"
        /\ last[req[r1].sid] = req[r1].at
        /\ req[r2].verdict = "rate_limited"
        /\ ~Malformed(req[r2].data)

\* the order in which the optional fields are given up
FixedOrder ==
    <<"response_format", "tools", "tool_choice", "reasoning", "text",
      "metadata", "previous_response_id">>

\* the optional fields among the keyword arguments kw
OptionalIn(kw) == kw \cap {FixedOrder[i] : i \in 1..Len(FixedOrder)}

\* C40: a call of the compatibility wrapper makes at most 8 create
\* attempts, each with model and input; an attempt follows only an attempt
\* that raised TypeError, and has the arguments of that attempt without
\* exactly one field, the first of the fixed order that those arguments
\* contain; and a TypeError on an attempt with an optional field left is
\* not the end, while on an attempt with none left it is raised again.
C40_DropsOneFieldPerTypeError ==
    cpt.pc # "off" =>
        LET a == cpt.attempts
        IN  /\ Len(a) <= 8
            /\ \A i \in 1..Len(a) : RequiredFields \subseteq a[i].kwargs
            /\ \A i \in 1..(Len(a) - 1) :
                   /\ a[i].outcome = "TypeError"
                   /\ \E k \in 1..Len(FixedOrder) :
                          /\ FixedOrder[k] \in a[i].kwargs
                          /\ \A j \in 1..(k - 1) : FixedOrder[j] \notin a[i].kwargs
                          /\ a[i + 1].kwargs = a[i].kwargs \ {FixedOrder[k]}
            /\ cpt.pc = "create" => (a = <<>> \/ a[Len(a)].outcome = "TypeError")
            /\ cpt.pc \in {"returned", "raised"} =>
                   /\ a # <<>>
                   /\ cpt.result = a[Len(a)].outcome
                   /\ a[Len(a)].outcome = "TypeError" =>
                          (cpt.pc = "raised" /\ OptionalIn(a[Len(a)].kwargs) = {})

\* all seven optional fields were passed and every attempt raised
\* TypeError: the eighth attempt had model and input only, and its
\* TypeError left the wrapper
C40_Witness ==
    /\ cpt.pc = "raised"
    /\ cpt.result = "TypeError"
    /\ \A i \in 1..Len(FixedOrder) : FixedOrder[i] \in cpt.kwargs
    /\ Len(cpt.attempts) = 8
    /\ cpt.attempts[8].kwargs = RequiredFields

====
